---- MODULE Spec2Model ----
(***************************************************************************)
(* Model of the AI-Insights Obsidian plugin (src/main.ts): the settings    *)
(* record, the run flag, the status bar text, the active note and the two  *)
(* workflows runOnActiveNote and deleteInsightsOnActiveNote.  Each action  *)
(* is one uninterrupted segment of a handler: from its entry (or from the  *)
(* resumption of an await) up to its next await or its return.             *)
(*                                                                         *)
(* Text is a sequence of atoms.  An atom is one white-space character      *)
(* (" " or "\n") or a chunk of non-white-space text ("##", "Insights").    *)
(***************************************************************************)
EXTENDS Integers, Sequences, FiniteSets, Bags, TLC

\* ---------------------------------------------------------------- bounds
MaxExec == 2        \* workflow executions that may be suspended at once
MaxTriggers == 3    \* user triggers in one behaviour

\* ------------------------------------------------------------------ text
NL == "\n"
SP == " "

isWs(c) == c \in {SP, NL}

RECURSIVE trimStart(_)
trimStart(s) ==
  IF s # <<>> /\ isWs(Head(s)) THEN trimStart(Tail(s)) ELSE s

RECURSIVE trimEnd(_)
trimEnd(s) ==
  IF s # <<>> /\ isWs(s[Len(s)]) THEN trimEnd(SubSeq(s, 1, Len(s) - 1)) ELSE s

\* String.prototype.trim
trim(s) == trimEnd(trimStart(s))

\* -------------------------------------------------------------- settings
CustomSentinel == <<"Custom...">>
KNOWN_MODELS == { <<"gpt-4o-mini">>, CustomSentinel }

DEFAULT_PROMPT == <<"prompt">>

DEFAULTS ==
  [ openaiApiKey    |-> <<>>,
    model           |-> <<"gpt-4o-mini">>,
    customModel     |-> <<>>,
    promptMode      |-> "inline",
    inlinePrompt    |-> DEFAULT_PROMPT,
    promptFilePath  |-> <<"Prompts/prompt.md">>,
    addHeader       |-> TRUE,
    headerText      |-> <<"##", SP, "Insights">>,
    maxOutputTokens |-> 800 ]

\* ----------------------------------------------------------------- regex
\* The characters escapeRegex escapes.  Of these the modelled alphabet holds
\* "." and "\\" as one-character atoms.
RegexSpecial == {".", "*", "+", "?", "^", "$", "{", "}", "(", ")", "|", "[", "]", "\\"}

\* s.replace(/[.*+?^${}()|[\]\\]/g, "\\$&")
RECURSIVE escapeRegex(_)
escapeRegex(s) ==
  IF s = <<>> THEN <<>>
  ELSE (IF Head(s) \in RegexSpecial THEN <<"\\", Head(s)>> ELSE <<Head(s)>>)
         \o escapeRegex(Tail(s))

\* Pattern tokens
OptNl  == [t |-> "optnl"]            \* \n?
WsStar == [t |-> "ws*"]              \* \s*
NlTok  == [t |-> "nl"]               \* \n
Rest   == [t |-> "rest"]             \* [\s\S]*$
AnyTok == [t |-> "any"]              \* . (any atom but a line terminator)
Lit(c) == [t |-> "lit", c |-> c]

\* What the RegExp constructor makes of a piece of pattern source: a
\* backslash makes the next atom literal, a bare "." is the wildcard.
RECURSIVE ParseSource(_)
ParseSource(src) ==
  IF src = <<>> THEN <<>>
  ELSE IF Head(src) = "\\" /\ Len(src) >= 2
         THEN <<Lit(src[2])>> \o ParseSource(Tail(Tail(src)))
  ELSE IF Head(src) = "."
         THEN <<AnyTok>> \o ParseSource(Tail(src))
  ELSE <<Lit(Head(src))>> \o ParseSource(Tail(src))

\* new RegExp(`\\n?\\s*${this.escapeRegex(header)}\\s*\\n[\\s\\S]*$`, "m")
DeletePattern(header) ==
  <<OptNl, WsStar>> \o ParseSource(escapeRegex(header)) \o <<WsStar, NlTok, Rest>>

\* The positions at which a match of pat that starts at index i of s can end
\* (the index after the last atom consumed), over every backtracking choice.
RECURSIVE MatchEnds(_, _, _)
MatchEnds(pat, s, i) ==
  IF pat = <<>> THEN {i}
  ELSE LET tok == Head(pat)
           rest == Tail(pat)
       IN CASE tok.t = "optnl" ->
                 MatchEnds(rest, s, i)
                   \cup (IF i <= Len(s) /\ s[i] = NL
                           THEN MatchEnds(rest, s, i + 1) ELSE {})
            [] tok.t = "ws*" ->
                 UNION { MatchEnds(rest, s, k) :
                           k \in { j \in i..(Len(s) + 1) :
                                     \A m \in i..(j - 1) : isWs(s[m]) } }
            [] tok.t = "nl" ->
                 IF i <= Len(s) /\ s[i] = NL
                   THEN MatchEnds(rest, s, i + 1) ELSE {}
            [] tok.t = "any" ->
                 IF i <= Len(s) /\ s[i] # NL
                   THEN MatchEnds(rest, s, i + 1) ELSE {}
            [] tok.t = "lit" ->
                 IF i <= Len(s) /\ s[i] = tok.c
                   THEN MatchEnds(rest, s, i + 1) ELSE {}
            \* greedy [\s\S]* runs to the end of the input, where $ matches
            [] tok.t = "rest" -> {Len(s) + 1}

\* The start indexes of the matches of pat in s
MatchStarts(pat, s) == { p \in 1..(Len(s) + 1) : MatchEnds(pat, s, p) # {} }

\* The test with its outcome negated
testNegated(pat, s) == MatchStarts(pat, s) = {}

\* RegExp.prototype.test
test(pat, s) == MatchStarts(pat, s) # {}

Min(S) == CHOOSE x \in S : \A y \in S : x <= y
Max(S) == CHOOSE x \in S : \A y \in S : x >= y

\* String.prototype.replace(pattern, ""): the leftmost match is removed.  The
\* last token of every pattern here is Rest, so the match ends where s ends.
replaceFirst(pat, s) ==
  IF ~test(pat, s) THEN s
  ELSE LET p == Min(MatchStarts(pat, s))
           e == Max(MatchEnds(pat, s, p))
       IN SubSeq(s, 1, p - 1) \o SubSeq(s, e, Len(s))


\* ----------------------------------------------------------------- state
VARIABLES
  data,              \* the persisted record loadData() returns (data.json)
  settings,          \* this.settings
  promptFileExists,  \* the vault holds a file at settings.promptFilePath
  activeFile,        \* workspace.getActiveFile() returns a file
  doc,               \* the content of the active note
  isRunning,         \* this.isRunning
  ribbonEl,          \* the icon of the run ribbon button
  statusEl,          \* the text of the status bar item
  timers,            \* pending window.setTimeout callbacks
  execs,             \* the bag of suspended workflow executions
  posts,             \* the model ids of the HTTP POSTs issued, in order
  triggers,          \* user triggers so far
  ev                 \* what the last handler segment ended (history)

vars == <<data, settings, promptFileExists, activeFile, doc, isRunning, ribbonEl,
          statusEl, timers, execs, posts, triggers, ev>>

StatusIdle       == "Chat Append: idle"
StatusRunning    == "Chat Append: Running..."
StatusDeleting   == "Chat Append: Deleting insights..."
StatusDone       == "Chat Append: done"
StatusErrPrompt  == "Chat Append: error (prompt file)"
StatusErrKey     == "Chat Append: error (no API key)"
StatusErrModel   == "Chat Append: error (no model)"
StatusErrRequest == "Chat Append: error (request)"
StatusErrConsole == "Chat Append: error (see console)"

\* The locals of a suspended execution: the operation, the await it is
\* suspended at, whether an editor handle was passed (run), the trimmed
\* header and the content read (delete), the result text (run), and the
\* block to append (run) or the updated content (delete).
NewExec(op, editor, header) ==
  [op |-> op, pc |-> "read", editor |-> editor, header |-> header,
   content |-> <<>>, result |-> <<>>, text |-> <<>>]

InFlight == BagToSet(execs)

NumInFlight == BagCardinality(execs)

\* execs with execution e replaced by its next suspended state f
Resume(e, f) == (execs (-) SetToBag({e})) (+) SetToBag({f})

\* History: what the last handler segment ended, when it ended a trigger
\* without starting an execution (kind "reject") or ended an execution (kind
\* "return"); NoEv after every other segment.  outcome names the way it
\* ended and stage the await that threw, docBefore is the note before the
\* segment, content, result and text are the execution's locals, wrote says
\* that the segment wrote the note, asked that window.confirm was called.
NoEv == [kind |-> "none", op |-> "none", outcome |-> "none", stage |-> "none",
         docBefore |-> <<>>, content |-> <<>>, result |-> <<>>, text |-> <<>>,
         wrote |-> FALSE, asked |-> FALSE]

Event(kind, op, outcome, stage) ==
  [NoEv EXCEPT !.kind = kind, !.op = op, !.outcome = outcome, !.stage = stage,
               !.docBefore = doc]

\* -------------------------------------------------------------- helpers
\* private resolveModel()
resolveModel(st) ==
  IF st.model = CustomSentinel /\ Len(trim(st.customModel)) > 0
    THEN trim(st.customModel)
    ELSE st.model

\* setLoading without the status text reset of its else branch
setLoadingKeepsStatus(loading, status) ==
  [ isRunning |-> loading,
    ribbonEl  |-> IF loading THEN "loader-2" ELSE "stars",
    statusEl  |-> IF loading THEN StatusRunning ELSE status ]

\* private setLoading(loading), called when the status bar shows `status`:
\* the flag, and behind if (this.ribbonEl) the ribbon icon and status text
setLoading(loading, status) ==
  IF ribbonEl # "none"
    THEN [ isRunning |-> loading,
           ribbonEl  |-> IF loading THEN "loader-2" ELSE "stars",
           statusEl  |-> IF loading THEN StatusRunning ELSE StatusIdle ]
    ELSE [ isRunning |-> loading, ribbonEl |-> ribbonEl, statusEl |-> status ]

\* The block built with the trimmed header that the delete anchors on
buildBlockTrimmedHeader(st, resultText) ==
  IF st.addHeader
    THEN <<NL, NL>> \o trim(st.headerText) \o <<NL>> \o resultText \o <<NL>>
    ELSE <<NL, NL>> \o resultText \o <<NL>>

\* const block = addHeader ? `\n\n${headerText}\n${resultText}\n` : `\n\n${resultText}\n`
buildBlock(st, resultText) ==
  IF st.addHeader
    THEN <<NL, NL>> \o st.headerText \o <<NL>> \o resultText \o <<NL>>
    ELSE <<NL, NL>> \o resultText \o <<NL>>

\* The finally clause of both workflows, the last thing an execution that
\* entered its try region does: setLoading(false) over the status text the
\* segment wrote last, and the execution is gone.
Finally(e, status) ==
  /\ isRunning' = setLoading(FALSE, status).isRunning
  /\ ribbonEl' = setLoading(FALSE, status).ribbonEl
  /\ statusEl' = setLoading(FALSE, status).statusEl
  /\ execs' = execs (-) SetToBag({e})

\* ------------------------------------------------------------------ Init
\* Object.assign with its sources swapped: the defaults are copied last
MergeDefaultsLast(defaults, persisted) ==
  [ f \in DOMAIN defaults |-> defaults[f] ]

\* Object.assign({}, DEFAULTS, await this.loadData())
MergeDefaults(defaults, persisted) ==
  [ f \in DOMAIN defaults |->
      IF f \in DOMAIN persisted THEN persisted[f] ELSE defaults[f] ]

Nothing == [f \in {} |-> 0]

\* Persisted partial records: the fields that decide a run's preconditions
\* in every combination, and the fields that shape the block and the delete
\* anchor over settings that let a run through.
PersistedPreconditions ==
  { k @@ m @@ p :
      k \in { Nothing, [openaiApiKey |-> <<"sk">>] },
      m \in { Nothing,
              [model |-> <<>>],
              [model |-> CustomSentinel],
              [model |-> CustomSentinel, customModel |-> <<SP>>],
              [model |-> CustomSentinel, customModel |-> <<SP, "my-model">>] },
      p \in { Nothing, [promptMode |-> "file"] } }

PersistedBlockShape ==
  { [openaiApiKey |-> <<"sk">>] @@ a @@ h :
      a \in { Nothing, [addHeader |-> FALSE] },
      h \in { Nothing,
              [headerText |-> <<"##", SP, "Insights", SP>>],
              [headerText |-> <<SP>>] } }

PersistedRecords == PersistedPreconditions \cup PersistedBlockShape

InitDocs ==
  { <<"A", NL, "B", NL, "##", SP, "Insights", NL, "C", NL, "D">>,
    <<"A", NL, "B">> }

\* The text a successful response yields
ResultTexts == { <<"Hello">>, <<>> }

\* The state after onload.  The inputs are paired so that every record of
\* PersistedPreconditions meets one note and every note meets every record
\* of PersistedBlockShape.
Init ==
  /\ \E r \in PersistedRecords, d \in InitDocs :
       /\ r \in PersistedBlockShape \/ d = <<"A", NL, "B">>
       /\ data = r
       /\ settings = MergeDefaults(DEFAULTS, r)
       /\ doc = d
  /\ promptFileExists \in BOOLEAN
  /\ (settings.promptMode = "inline" => promptFileExists)
  /\ activeFile \in BOOLEAN
  /\ isRunning = FALSE
  /\ ribbonEl = "stars"
  /\ statusEl = StatusIdle
  /\ timers = 0
  /\ execs = EmptyBag
  /\ posts = <<>>
  /\ triggers = 0
  /\ ev = NoEv

\* ------------------------------------------------------- runOnActiveNote
\* An early return from inside the try region (lines 188-190, 195-197,
\* 202-204): Notice, the error status text, return; then finally
RunReturn(e, outcome, status) ==
  /\ Finally(e, status)
  /\ ev' = Event("return", "run", outcome, "none")
  /\ UNCHANGED <<doc, timers, posts>>

\* Lines 253-259: catch (e): console.error, Notice, status "error (see
\* console)"; then finally
RunCatch(e, outcome, stage) ==
  /\ Finally(e, StatusErrConsole)
  /\ ev' = Event("return", "run", outcome, stage)
  /\ UNCHANGED <<doc, timers, posts>>

\* The same with the model check made before the API key check
RunModelKeyFetch(e) ==
  IF resolveModel(settings) = <<>>
    THEN RunReturn(e, "MissingModel", StatusErrModel)
  ELSE IF settings.openaiApiKey = <<>>
    THEN RunReturn(e, "MissingCredential", StatusErrKey)
  ELSE /\ posts' = Append(posts, resolveModel(settings))
       /\ execs' = Resume(e, [e EXCEPT !.pc = "fetch"])
       /\ ev' = NoEv
       /\ UNCHANGED <<doc, timers, isRunning, ribbonEl, statusEl>>

\* Lines 194-223: the API key check, the model check and the fetch call
RunKeyModelFetch(e) ==
  IF settings.openaiApiKey = <<>>
    THEN RunReturn(e, "MissingCredential", StatusErrKey)
  ELSE IF resolveModel(settings) = <<>>
    THEN RunReturn(e, "MissingModel", StatusErrModel)
  ELSE /\ posts' = Append(posts, resolveModel(settings))
       /\ execs' = Resume(e, [e EXCEPT !.pc = "fetch"])
       /\ ev' = NoEv
       /\ UNCHANGED <<doc, timers, isRunning, ribbonEl, statusEl>>

\* Lines 173-179: no active file, else setLoading(true) and await vault.read
runOnActiveNote(editor) ==
  \/ /\ ~activeFile
     /\ ev' = Event("reject", "run", "NoActiveDocument", "none")
     /\ UNCHANGED <<doc, timers, posts, isRunning, ribbonEl, statusEl, execs>>
  \/ /\ activeFile
     /\ NumInFlight < MaxExec
     /\ isRunning' = setLoading(TRUE, statusEl).isRunning
     /\ ribbonEl' = setLoading(TRUE, statusEl).ribbonEl
     /\ statusEl' = setLoading(TRUE, statusEl).statusEl
     /\ execs' = execs (+) SetToBag({NewExec("run", editor, <<>>)})
     /\ ev' = NoEv
     /\ UNCHANGED <<doc, timers, posts>>

\* Lines 179-192: vault.read(file) resolves or throws; the prompt is resolved
RunRead(e) ==
  /\ e \in InFlight /\ e.op = "run" /\ e.pc = "read"
  /\ \/ RunCatch(e, "UnexpectedError", "read")
     \/ IF settings.promptMode = "file"
          THEN IF promptFileExists
                 THEN /\ execs' = Resume(e, [e EXCEPT !.pc = "readPrompt"])
                      /\ ev' = NoEv
                      /\ UNCHANGED <<doc, timers, posts, isRunning, ribbonEl, statusEl>>
                 ELSE RunReturn(e, "PromptFileNotFound", StatusErrPrompt)
          ELSE RunKeyModelFetch(e)
  /\ UNCHANGED <<data, settings, promptFileExists, activeFile, triggers>>

\* Line 186: vault.read(promptFile) resolves or throws
RunReadPrompt(e) ==
  /\ e \in InFlight /\ e.op = "run" /\ e.pc = "readPrompt"
  /\ \/ RunCatch(e, "UnexpectedError", "readPrompt")
     \/ RunKeyModelFetch(e)
  /\ UNCHANGED <<data, settings, promptFileExists, activeFile, triggers>>

\* Lines 209-231: fetch rejects, or resolves with res.ok false or true
RunFetch(e) ==
  /\ e \in InFlight /\ e.op = "run" /\ e.pc = "fetch"
  /\ \/ RunCatch(e, "UnexpectedError", "fetch")
     \/ \E ok \in BOOLEAN :
          /\ execs' = Resume(e, [e EXCEPT !.pc = IF ok THEN "json" ELSE "errText"])
          /\ ev' = NoEv
          /\ UNCHANGED <<doc, timers, posts, isRunning, ribbonEl, statusEl>>
  /\ UNCHANGED <<data, settings, promptFileExists, activeFile, triggers>>

\* Lines 226-228: res.text() settles, status "error (request)", the error is
\* thrown and caught
RunErrText(e) ==
  /\ e \in InFlight /\ e.op = "run" /\ e.pc = "errText"
  /\ RunCatch(e, "RequestFailed", "none")
  /\ UNCHANGED <<data, settings, promptFileExists, activeFile, triggers>>

\* Lines 245-252 and 257-259: the block is written at the end of the note;
\* Notice, status done, setTimeout; then finally
RunSuccess(e, resultText, block) ==
  /\ doc' = doc \o block
  /\ timers' = timers + 1
  /\ Finally(e, StatusDone)
  /\ ev' = [Event("return", "run", "Success", "none")
              EXCEPT !.result = resultText, !.text = block, !.wrote = TRUE]
  /\ UNCHANGED posts

\* Lines 231-248: res.json() throws or yields the result text; the block is
\* built; the editor takes it at once, or vault.append is awaited
RunJson(e) ==
  /\ e \in InFlight /\ e.op = "run" /\ e.pc = "json"
  /\ \/ RunCatch(e, "UnexpectedError", "json")
     \/ \E resultText \in ResultTexts, sameEditor \in BOOLEAN :
          LET block == buildBlock(settings, resultText)
          IN IF e.editor /\ sameEditor
               THEN RunSuccess(e, resultText, block)
               ELSE /\ execs' = Resume(e, [e EXCEPT !.pc = "append",
                                                    !.result = resultText,
                                                    !.text = block])
                    /\ ev' = NoEv
                    /\ UNCHANGED <<doc, timers, posts, isRunning, ribbonEl, statusEl>>
  /\ UNCHANGED <<data, settings, promptFileExists, activeFile, triggers>>

\* Line 247: vault.append(file, block) resolves or throws
RunAppend(e) ==
  /\ e \in InFlight /\ e.op = "run" /\ e.pc = "append"
  /\ \/ RunCatch(e, "UnexpectedError", "append")
     \/ RunSuccess(e, e.result, e.text)
  /\ UNCHANGED <<data, settings, promptFileExists, activeFile, triggers>>

\* -------------------------------------------- deleteInsightsOnActiveNote
\* An early return that leaves the try region without its finally clause
DeleteReturnSkipsFinally(e, content, outcome, asked) ==
  /\ statusEl' = StatusIdle
  /\ execs' = execs (-) SetToBag({e})
  /\ ev' = [Event("return", "delete", outcome, "none")
              EXCEPT !.content = content, !.asked = asked]
  /\ UNCHANGED <<doc, timers, posts, isRunning, ribbonEl>>

\* Lines 278-287: an early return from inside the try region, after the
\* status text was set to idle; then finally
DeleteReturn(e, content, outcome, asked) ==
  /\ Finally(e, StatusIdle)
  /\ ev' = [Event("return", "delete", outcome, "none")
              EXCEPT !.content = content, !.asked = asked]
  /\ UNCHANGED <<doc, timers, posts>>

\* Lines 295-301: catch (e): console.error, Notice, status "error (see
\* console)"; then finally
DeleteCatch(e, stage) ==
  /\ Finally(e, StatusErrConsole)
  /\ ev' = [Event("return", "delete", "UnexpectedError", stage)
              EXCEPT !.content = e.content, !.asked = (stage = "modify")]
  /\ UNCHANGED <<doc, timers, posts>>

\* Lines 263-273: no active file, empty header, else setLoading(true), the
\* status "Deleting insights" and await vault.read
deleteInsightsOnActiveNote ==
  \/ /\ ~activeFile
     /\ ev' = Event("reject", "delete", "NoActiveDocument", "none")
     /\ UNCHANGED <<doc, timers, posts, isRunning, ribbonEl, statusEl, execs>>
  \/ /\ activeFile
     /\ trim(settings.headerText) = <<>>
     /\ ev' = Event("reject", "delete", "InvalidConfiguration", "none")
     /\ UNCHANGED <<doc, timers, posts, isRunning, ribbonEl, statusEl, execs>>
  \/ /\ activeFile
     /\ trim(settings.headerText) # <<>>
     /\ NumInFlight < MaxExec
     /\ isRunning' = setLoading(TRUE, statusEl).isRunning
     /\ ribbonEl' = setLoading(TRUE, statusEl).ribbonEl
     /\ statusEl' = StatusDeleting
     /\ execs' = execs (+) SetToBag({NewExec("delete", FALSE,
                                                  trim(settings.headerText))})
     /\ ev' = NoEv
     /\ UNCHANGED <<doc, timers, posts>>

\* Lines 273-290: vault.read resolves or throws; the pattern is tested; the
\* user is asked to confirm; vault.modify is awaited
DeleteRead(e) ==
  /\ e \in InFlight /\ e.op = "delete" /\ e.pc = "read"
  /\ LET pattern == DeletePattern(e.header)
     IN \/ DeleteCatch(e, "read")
        \/ /\ ~test(pattern, doc)
           /\ DeleteReturn(e, doc, "NoInsightsFound", FALSE)
        \/ /\ test(pattern, doc)
           /\ \E confirmed \in BOOLEAN :
                IF ~confirmed
                  THEN DeleteReturn(e, doc, "Declined", TRUE)
                  ELSE /\ execs' = Resume(e, [e EXCEPT
                                                !.pc = "modify",
                                                !.content = doc,
                                                !.text = replaceFirst(pattern, doc)])
                       /\ ev' = NoEv
                       /\ UNCHANGED <<doc, timers, posts, isRunning, ribbonEl, statusEl>>
  /\ UNCHANGED <<data, settings, promptFileExists, activeFile, triggers>>

\* Lines 290-301: vault.modify(file, updated) resolves or throws; Notice,
\* status done, setTimeout; then finally
DeleteModify(e) ==
  /\ e \in InFlight /\ e.op = "delete" /\ e.pc = "modify"
  /\ \/ DeleteCatch(e, "modify")
     \/ /\ doc' = e.text
        /\ timers' = timers + 1
        /\ Finally(e, StatusDone)
        /\ ev' = [Event("return", "delete", "Deleted", "none")
                    EXCEPT !.content = e.content, !.text = e.text,
                           !.wrote = TRUE, !.asked = TRUE]
        /\ UNCHANGED posts
  /\ UNCHANGED <<data, settings, promptFileExists, activeFile, triggers>>

\* ------------------------------------------------------------- triggers
\* if (this.isRunning) { new Notice("Already running"); return; }
AlreadyRunning(op) ==
  /\ ev' = Event("reject", op, "AlreadyRunning", "none")
  /\ UNCHANGED <<doc, timers, posts, isRunning, ribbonEl, statusEl, execs>>

Trigger ==
  /\ triggers < MaxTriggers
  /\ triggers' = triggers + 1
  /\ UNCHANGED <<data, settings, promptFileExists, activeFile>>

\* Lines 109-112: the run ribbon icon
RibbonRun ==
  /\ Trigger
  /\ IF isRunning THEN AlreadyRunning("run") ELSE runOnActiveNote(FALSE)

\* Lines 115-118: the delete ribbon icon
RibbonDelete ==
  /\ Trigger
  /\ IF isRunning THEN AlreadyRunning("delete") ELSE deleteInsightsOnActiveNote

\* Lines 125-132: the run command; an editorCallback is offered only while
\* an editor is active, and passes that editor
CommandRun ==
  /\ activeFile
  /\ Trigger
  /\ IF isRunning THEN AlreadyRunning("run") ELSE runOnActiveNote(TRUE)

\* Lines 135-142: the delete command
CommandDelete ==
  /\ activeFile
  /\ Trigger
  /\ IF isRunning THEN AlreadyRunning("delete") ELSE deleteInsightsOnActiveNote

\* Lines 416-421: the "Delete insights" button of the settings tab
SettingsDelete ==
  /\ Trigger
  /\ deleteInsightsOnActiveNote

\* Lines 252 and 294: a pending setTimeout callback fires
TimerFire ==
  /\ timers > 0
  /\ timers' = timers - 1
  /\ statusEl' = StatusIdle
  /\ ev' = NoEv
  /\ UNCHANGED <<data, settings, promptFileExists, activeFile, doc, isRunning,
                 ribbonEl, execs, posts, triggers>>

\* The user closes the note (workspace.getActiveFile() returns null from now)
CloseNote ==
  /\ activeFile
  /\ activeFile' = FALSE
  /\ ev' = NoEv
  /\ UNCHANGED <<data, settings, promptFileExists, doc, isRunning, ribbonEl,
                 statusEl, timers, execs, posts, triggers>>

\* The user opens the note again
OpenNote ==
  /\ ~activeFile
  /\ activeFile' = TRUE
  /\ ev' = NoEv
  /\ UNCHANGED <<data, settings, promptFileExists, doc, isRunning, ribbonEl,
                 statusEl, timers, execs, posts, triggers>>

Next ==
  \/ CloseNote
  \/ OpenNote
  \/ RibbonRun
  \/ RibbonDelete
  \/ CommandRun
  \/ CommandDelete
  \/ SettingsDelete
  \/ TimerFire
  \/ \E e \in InFlight : RunRead(e)
  \/ \E e \in InFlight : RunReadPrompt(e)
  \/ \E e \in InFlight : RunFetch(e)
  \/ \E e \in InFlight : RunErrText(e)
  \/ \E e \in InFlight : RunJson(e)
  \/ \E e \in InFlight : RunAppend(e)
  \/ \E e \in InFlight : DeleteRead(e)
  \/ \E e \in InFlight : DeleteModify(e)

Spec == Init /\ [][Next]_vars


\* ------------------------------------------------------------ onload alone
\* The nine fields of ChatAppendSettings
SettingsFields == DOMAIN DEFAULTS

\* A saved value for every field, none of them the field's default
SavedValues ==
  [ openaiApiKey    |-> <<"sk">>,
    model           |-> CustomSentinel,
    customModel     |-> <<"my-model">>,
    promptMode      |-> "file",
    inlinePrompt    |-> <<"mine">>,
    promptFilePath  |-> <<"Prompts/other.md">>,
    addHeader       |-> FALSE,
    headerText      |-> <<"##", SP, "Notes">>,
    maxOutputTokens |-> 400 ]

\* Every persisted partial record over SavedValues: one for each subset of
\* the fields, the empty one (nothing saved yet) included
PartialRecords == { [f \in S |-> SavedValues[f]] : S \in SUBSET SettingsFields }

\* Before onload: this.settings is not assigned
InitLoad ==
  /\ data \in PartialRecords
  /\ settings = Nothing
  /\ promptFileExists = TRUE
  /\ activeFile = FALSE
  /\ doc = <<>>
  /\ isRunning = FALSE
  /\ ribbonEl = "none"
  /\ statusEl = ""
  /\ timers = 0
  /\ execs = EmptyBag
  /\ posts = <<>>
  /\ triggers = 0
  /\ ev = NoEv

\* Lines 96-145: the settings are loaded, the ribbon icons and the status
\* bar item are created
Onload ==
  /\ settings = Nothing
  /\ settings' = MergeDefaults(DEFAULTS, data)
  /\ ribbonEl' = "stars"
  /\ statusEl' = StatusIdle
  /\ UNCHANGED <<data, promptFileExists, activeFile, doc, isRunning, timers,
                 execs, posts, triggers, ev>>

SpecLoad == InitLoad /\ [][Onload]_vars

\* ------------------------------------------------- run, then delete, alone
\* Header texts: the default, one with trailing white space, one that holds
\* a character escapeRegex escapes
RoundTripHeaders ==
  { <<"##", SP, "Insights">>, <<"##", SP, "Insights", SP>>, <<"#", ".">> }

\* Notes: with and without trailing white space, empty, one that holds the
\* trimmed header only, one that "#." matches as a pattern but not as text
RoundTripDocs ==
  { <<"A">>,
    <<"A", NL>>,
    <<"A", NL, SP, NL>>,
    <<>>,
    <<"##", SP, "Insights", NL, "B">>,
    <<"#", "x", NL, "B">> }

\* After onload, with settings that let a run through and addHeader true
InitRoundTrip ==
  /\ \E h \in RoundTripHeaders :
       data = [openaiApiKey |-> <<"sk">>, headerText |-> h]
  /\ settings = MergeDefaults(DEFAULTS, data)
  /\ doc \in RoundTripDocs
  /\ promptFileExists = TRUE
  /\ activeFile = TRUE
  /\ isRunning = FALSE
  /\ ribbonEl = "stars"
  /\ statusEl = StatusIdle
  /\ timers = 0
  /\ execs = EmptyBag
  /\ posts = <<>>
  /\ triggers = 0
  /\ ev = NoEv

\* The ribbon icons only: a trigger during an execution is rejected, so the
\* run and the delete follow each other with nothing in between
NextRoundTrip ==
  \/ RibbonRun
  \/ RibbonDelete
  \/ TimerFire
  \/ \E e \in InFlight : RunRead(e)
  \/ \E e \in InFlight : RunFetch(e)
  \/ \E e \in InFlight : RunErrText(e)
  \/ \E e \in InFlight : RunJson(e)
  \/ \E e \in InFlight : RunAppend(e)
  \/ \E e \in InFlight : DeleteRead(e)
  \/ \E e \in InFlight : DeleteModify(e)

SpecRoundTrip == InitRoundTrip /\ [][NextRoundTrip]_vars

\* ================================================================ claims
\* The executions of the bag that satisfy a condition, counted with copies
NumOf(S) == BagCardinality([x \in S |-> CopiesIn(x, execs)])

\* s has t as a contiguous substring starting at index i
OccursAt(s, t, i) ==
  /\ i >= 1
  /\ i + Len(t) - 1 <= Len(s)
  /\ SubSeq(s, i, i + Len(t) - 1) = t

\* t occurs verbatim in s
Includes(s, t) == \E i \in 1..(Len(s) + 1) : OccursAt(s, t, i)

Returned(op) == ev.kind = "return" /\ ev.op = op

\* C1 (as claimed): in every reachable state at most one execution of
\* runOnActiveNote or deleteInsightsOnActiveNote is between its start and
\* its return.
C1_AtMostOneInFlight == NumInFlight <= 1

\* C2 (as claimed): a run trigger that arrives while a run is in flight is
\* rejected, so at no time are two runs awaiting the response of their own
\* HTTP POST.
C2_NoSecondPostInFlight ==
  NumOf({e \in InFlight : e.op = "run" /\ e.pc = "fetch"}) <= 1

C4_FlagClearedOnReturn ==
  (ev.kind \in {"return", "reject"} /\ ev.outcome # "AlreadyRunning")
    => (isRunning = FALSE /\ ribbonEl = "stars")

RunFailures ==
  {"PromptFileNotFound", "MissingCredential", "MissingModel", "RequestFailed",
   "UnexpectedError"}

\* The status texts that name a failure category
ErrorStatusOf(outcome) ==
  CASE outcome = "PromptFileNotFound" -> {StatusErrPrompt}
    [] outcome = "MissingCredential"  -> {StatusErrKey}
    [] outcome = "MissingModel"       -> {StatusErrModel}
    [] outcome = "RequestFailed"      -> {StatusErrRequest, StatusErrConsole}
    [] OTHER                          -> {StatusErrConsole}

\* C5 (as claimed): when a run has just returned on a failure path, the
\* status text is the error indicator of that failure.
C5_ErrorStatusAfterFailure ==
  (Returned("run") /\ ev.outcome \in RunFailures)
    => statusEl \in ErrorStatusOf(ev.outcome)

\* C6 (as claimed): when a successful run has just returned, the status
\* text is the completion indicator (its change to idle is the timer's).
C6_DoneStatusAfterSuccess ==
  (Returned("run") /\ ev.outcome = "Success") => statusEl = StatusDone

\* C7 (as claimed): the custom sentinel is never the model id of a request,
\* and with the sentinel selected and a blank customModel no request is made.
C7_SentinelNeverSent ==
  /\ \A k \in 1..Len(posts) : posts[k] # CustomSentinel
  /\ (settings.model = CustomSentinel /\ trim(settings.customModel) = <<>>)
       => posts = <<>>

\* The text of s before the line that holds the first occurrence of header,
\* up to and including the newline that ends the line before it
TextBeforeHeaderLine(s, header) ==
  LET q == Min({ i \in 1..(Len(s) + 1) : OccursAt(s, header, i) })
      lineStart == Max({ j \in 1..q : j = 1 \/ s[j - 1] = NL })
  IN SubSeq(s, 1, lineStart - 1)

\* C8 (as claimed): after a confirmed deletion the note is exactly the text
\* before the header line, the newline that ends the previous line included.
C8_DeleteKeepsTextBeforeHeader ==
  (Returned("delete") /\ ev.outcome = "Deleted")
    => doc = TextBeforeHeaderLine(ev.content, trim(settings.headerText))

\* The delete executions that read the note
DeleteReadContent == Returned("delete") /\ ev.stage # "read"

NoInsightsFoundEffect ==
  /\ ev.outcome = "NoInsightsFound"
  /\ ~ev.asked
  /\ ~ev.wrote
  /\ doc = ev.docBefore
  /\ isRunning = FALSE
  /\ statusEl = StatusIdle

\* C9 (as claimed): when the configured header text does not occur verbatim
\* in the note that a delete read, the delete reports NoInsightsFound, asks
\* no confirmation, writes nothing and returns with the flag false and the
\* status idle.
C9_AbsentHeaderTextNoInsights ==
  (DeleteReadContent /\ ~Includes(ev.content, settings.headerText))
    => NoInsightsFoundEffect

\* C9 (amended): the same, when the configured header text trimmed of its
\* surrounding white space is not empty and does not occur in the note.
C9_AbsentTrimmedHeaderNoInsights ==
  (DeleteReadContent /\ ~Includes(ev.content, trim(settings.headerText)))
    => NoInsightsFoundEffect

C9_Witness ==
  /\ DeleteReadContent
  /\ ~Includes(ev.content, trim(settings.headerText))
  /\ ev.outcome = "NoInsightsFound"

\* C10: the block a successful run writes is two newlines, headerText, a
\* newline, the result text and a newline when addHeader is true, and two
\* newlines, the result text and a newline when it is false; the note after
\* the run is the note at write time followed by that block.
C10_BlockAppended ==
  (Returned("run") /\ ev.outcome = "Success")
    => /\ settings.addHeader =>
            ev.text = <<NL, NL>> \o settings.headerText \o <<NL>> \o ev.result \o <<NL>>
       /\ ~settings.addHeader => ev.text = <<NL, NL>> \o ev.result \o <<NL>>
       /\ doc = ev.docBefore \o ev.text

C10_Witness ==
  /\ Returned("run") /\ ev.outcome = "Success"
  /\ settings.addHeader
  /\ settings.headerText = <<"##", SP, "Insights", SP>>
  /\ ev.result = <<"Hello">>


\* C11: the settings loaded from any persisted partial record define every
\* one of the nine fields; a field present in the persisted record has its
\* persisted value and an absent field has its hardcoded default.
C11_LoadMergesDefaults ==
  settings # Nothing
    => /\ DOMAIN settings = SettingsFields
       /\ \A f \in SettingsFields :
            /\ f \in DOMAIN data => settings[f] = data[f]
            /\ f \notin DOMAIN data => settings[f] = DEFAULTS[f]

C11_Witness ==
  /\ settings # Nothing
  /\ DOMAIN data = {"model", "addHeader"}
  /\ settings.model = CustomSentinel
  /\ settings.headerText = DEFAULTS.headerText


\* The precondition failures of a run that the settings and the vault decide
PromptMissing == settings.promptMode = "file" /\ ~promptFileExists
KeyEmpty == settings.openaiApiKey = <<>>
ModelEmpty == resolveModel(settings) = <<>>

PreconditionFailures == {"PromptFileNotFound", "MissingCredential", "MissingModel"}

\* The first of them that applies, in the stated order
FirstPrecondition ==
  IF PromptMissing THEN "PromptFileNotFound"
  ELSE IF KeyEmpty THEN "MissingCredential"
  ELSE IF ModelEmpty THEN "MissingModel"
  ELSE "none"

\* A run that got past its awaited reads reports the first precondition
\* failure that applies, and none when none applies; a precondition failure
\* writes nothing, and no POST is ever issued while one applies.
PreconditionsInOrder ==
  /\ (Returned("run") /\ ev.stage \notin {"read", "readPrompt"})
       => IF FirstPrecondition # "none"
            THEN ev.outcome = FirstPrecondition
            ELSE ev.outcome \notin PreconditionFailures
  /\ (ev.op = "run" /\ ev.kind \in {"reject", "return"}
        /\ ev.outcome \in PreconditionFailures
                            \cup {"NoActiveDocument", "AlreadyRunning"})
       => (~ev.wrote /\ doc = ev.docBefore)
  /\ FirstPrecondition # "none" => posts = <<>>

\* C12 (as claimed): a run trigger reports NoActiveDocument when there is no
\* active document, before the re-entrancy check, and AlreadyRunning only
\* when there is one; then the prompt file, the API key and the model are
\* checked in this order, the first failure is the one reported, and a
\* failure issues no POST and writes nothing.
C12_NoDocumentBeforeReentrancy ==
  /\ (ev.kind = "reject" /\ ev.op = "run")
       => ev.outcome = IF ~activeFile THEN "NoActiveDocument" ELSE "AlreadyRunning"
  /\ PreconditionsInOrder

\* C12 (amended): the re-entrancy check comes first: a run trigger reports
\* AlreadyRunning whenever the run flag is set, and NoActiveDocument only
\* when the flag is clear and there is no active document; the rest as
\* claimed.
C12_ReentrancyBeforeNoDocument ==
  /\ (ev.kind = "reject" /\ ev.op = "run")
       => /\ ev.outcome = IF isRunning THEN "AlreadyRunning" ELSE "NoActiveDocument"
          /\ ~isRunning => ~activeFile
  /\ PreconditionsInOrder

C12_Witness ==
  /\ Returned("run")
  /\ ev.outcome = "PromptFileNotFound"
  /\ KeyEmpty


\* C13 (as claimed): in every reachable state the run flag is true exactly
\* when a workflow execution is in progress, suspended at an await or not.
C13_FlagIffInFlight == isRunning <=> (NumInFlight >= 1)

\* C14: when the pattern matches and the user declines the confirmation,
\* the delete writes nothing, the note is as before, and the delete returns
\* with the run flag false and the status idle.
C14_DeclinedLeavesNote ==
  (Returned("delete") /\ ev.outcome = "Declined")
    => /\ ev.asked
       /\ test(DeletePattern(trim(settings.headerText)), ev.content)
       /\ ~ev.wrote
       /\ doc = ev.docBefore
       /\ doc = ev.content
       /\ isRunning = FALSE
       /\ statusEl = StatusIdle

C14_Witness == Returned("delete") /\ ev.outcome = "Declined"

\* C15 (as claimed): while the run flag is true the status text is never
\* the idle text.
C15_NotIdleWhileRunning == isRunning => statusEl # StatusIdle


\* The prefixes of s
Prefixes(s) == { SubSeq(s, 1, n) : n \in 0..Len(s) }

\* C16 (as claimed): when a confirmed delete has just returned and the note
\* it read was an original without the configured header text followed by
\* the block of a run with addHeader true, the note is exactly that original,
\* its trailing white space included.
C16_RoundTripRestoresNote ==
  (Returned("delete") /\ ev.outcome = "Deleted" /\ settings.addHeader)
    => \A original \in Prefixes(ev.content), resultText \in ResultTexts :
         (/\ ev.content = original \o buildBlock(settings, resultText)
          /\ ~Includes(original, settings.headerText))
           => doc = original


====
